---- MODULE Spec2Model ----
(***************************************************************************)
(* The controller of the Socratic math tutor (the App component): its      *)
(* React state, the two event handlers handleFileChange and                *)
(* handleSendMessage, and the continuations of their awaits.               *)
(*                                                                         *)
(* JavaScript runs every handler segment (from an event or a promise       *)
(* settlement up to the next await or the end of the handler) without      *)
(* interruption, so each segment is one action.  A string that the code    *)
(* inspects is the sequence of its tokens: a message text is split into    *)
(* its single whitespace characters and the runs between them, a media     *)
(* type into type, "/" and subtype.                                        *)
(***************************************************************************)
EXTENDS Integers, Sequences, FiniteSets, TLC

VARIABLES
    messages,       \* useState<Message[]>
    userInput,      \* useState('')
    isLoading,      \* useState(false)
    error,          \* useState<string | null>
    chat,           \* useState<Chat | null>: the identity of the session
    showWhyButton,  \* useState(false)
    tasks,          \* the handler invocations that reached an await, in call order
    now             \* the latest reading of Date.now()

vars == <<messages, userInput, isLoading, error, chat, showWhyButton, tasks, now>>

--------------------------------------------------------------------------
(* Bounds *)

MaxTasks == 3       \* handler invocations that start a request, per behaviour
MaxClock == 0       \* Date.now() reads 0..MaxClock

--------------------------------------------------------------------------
(* Values *)

NoChat == 0                 \* chat === null
NoError == "<null>"         \* error === null
NoFile == [name |-> "<none>", type |-> <<>>]    \* event.target.files?.[0] undefined

ImagePrefix == <<"image", "/">>
ImagePng == <<"image", "/", "png">>
TextPlain == <<"text", "/", "plain">>

Files ==
    { [name |-> "photo.png", type |-> ImagePng],
      [name |-> "notes.txt", type |-> TextPlain] }

WhyText == <<"Why", " ", "did", " ", "we", " ", "do", " ", "that?">>

Texts == { <<" ">>, WhyText }

\* What a promise can be rejected with: an Error carrying a message, or a
\* value that is no Error (the FileReader's ProgressEvent).
ServiceError == [isError |-> TRUE, message |-> "service unavailable"]
NotAnError == [isError |-> FALSE, message |-> ""]

Whitespace == {" ", "\t", "\n"}

--------------------------------------------------------------------------
(* String helpers *)

StartsWith(s, prefix) ==
    /\ Len(s) >= Len(prefix)
    /\ SubSeq(s, 1, Len(prefix)) = prefix

RECURSIVE TrimStart(_)
TrimStart(s) ==
    IF s # <<>> /\ Head(s) \in Whitespace THEN TrimStart(Tail(s)) ELSE s

RECURSIVE TrimEnd(_)
TrimEnd(s) ==
    IF s # <<>> /\ s[Len(s)] \in Whitespace
    THEN TrimEnd(SubSeq(s, 1, Len(s) - 1))
    ELSE s

Trim(s) == TrimEnd(TrimStart(s))

--------------------------------------------------------------------------
(* Collaborators *)

\* Date.now() rendered into an id.
MessageId(prefix, clock) == <<prefix, ToString(clock)>>

\* URL.createObjectURL(file): a fresh URL for every call.
ObjectURL(t) == <<"blob:", ToString(t)>>

\* response.text of the request made by task t.
ResponseText(t) == <<"reply:", ToString(t)>>

\* reader.readAsDataURL(file): "data:<type>;base64,<payload>"
ReadAsDataURL(file) == <<"data:", file.type, ";base64", ",", file.name>>

\* result.split(',')[1]
AfterComma(url) ==
    LET i == CHOOSE k \in 1..Len(url) :
                 url[k] = "," /\ \A j \in 1..(k - 1) : url[j] # ","
    IN  url[i + 1]

fileToBase64(file) ==
    [mimeType |-> file.type, data |-> AfterComma(ReadAsDataURL(file))]

ErrorMessage(err) ==
    IF err.isError THEN err.message ELSE "An unexpected error occurred."

--------------------------------------------------------------------------
(* Messages *)

Greeting ==
    [id |-> <<"initial-ai-message">>, sender |-> "ai", type |-> "text",
     content |-> <<"Hello! I'm your friendly math tutor. Stuck on a problem? Upload a photo, and we'll solve it together, one step at a time.">>]

UserImageMessage(t, file, clock) ==
    [id |-> MessageId("user-", clock), sender |-> "user", type |-> "image",
     content |-> ObjectURL(t), mimeType |-> file.type]

UserMessage(messageText, clock) ==
    [id |-> MessageId("user-", clock), sender |-> "user", type |-> "text",
     content |-> messageText]

AiResponse(t, clock) ==
    [id |-> MessageId("ai-", clock), sender |-> "ai", type |-> "text",
     content |-> ResponseText(t)]

--------------------------------------------------------------------------
(* The component state as one value, and the handlers as functions on it *)

State ==
    [messages |-> messages, userInput |-> userInput, isLoading |-> isLoading,
     error |-> error, chat |-> chat, showWhyButton |-> showWhyButton,
     tasks |-> tasks]

Install(s) ==
    /\ messages' = s.messages
    /\ userInput' = s.userInput
    /\ isLoading' = s.isLoading
    /\ error' = s.error
    /\ chat' = s.chat
    /\ showWhyButton' = s.showWhyButton
    /\ tasks' = s.tasks

Pending(ts) == {t \in DOMAIN ts : ts[t].pc \in {"encode", "send"}}

\* A handler invocation suspended at an await.  chat is the session the
\* invocation holds (newChat, or the chat its closure captured).  issued and
\* alone are history: the store the handler left when it suspended, and
\* whether no other request was pending then.
FileTask(s, file, issued) ==
    [kind |-> "file", pc |-> "encode", file |-> file, text |-> <<>>,
     chat |-> NoChat, issued |-> issued, alone |-> Pending(s.tasks) = {}]

TextTask(s, messageText, issued) ==
    [kind |-> "text", pc |-> "send", file |-> NoFile, text |-> messageText,
     chat |-> s.chat, issued |-> issued, alone |-> Pending(s.tasks) = {}]

\* A handler invocation that has returned: its locals are gone, what stays is
\* how it ended and the session it created or used.
Finished(task, outcome) ==
    [kind |-> task.kind, pc |-> outcome, file |-> NoFile, text |-> <<>>,
     chat |-> task.chat, issued |-> <<>>, alone |-> FALSE]

\* handleFileChange up to its first await.
handleFileChange(s, file, clock) ==
    IF file = NoFile
    THEN s
    ELSE LET t == Len(s.tasks) + 1
             store == <<UserImageMessage(t, file, clock)>>
         IN  [s EXCEPT !.error = NoError,
                       !.showWhyButton = FALSE,
                       !.messages = store,
                       !.isLoading = TRUE,
                       !.tasks = Append(@, FileTask(s, file, store))]

\* fileCatch that also withdraws the follow-up prompt.
fileCatch_HidesWhy(s, t, err, outcome) ==
    [s EXCEPT !.error = "Failed to analyze the image. " \o ErrorMessage(err),
              !.messages = <<>>,
              !.showWhyButton = FALSE,
              !.isLoading = FALSE,
              !.tasks[t] = Finished(@, outcome)]

\* catch and finally of handleFileChange.
fileCatch(s, t, err, outcome) ==
    [s EXCEPT !.error = "Failed to analyze the image. " \o ErrorMessage(err),
              !.messages = <<>>,
              !.isLoading = FALSE,
              !.tasks[t] = Finished(@, outcome)]

\* fileEncoded without the media type check of line 75.
fileEncoded_NoTypeCheck(s, t) ==
    [s EXCEPT !.chat = t,
              !.tasks[t].chat = t,
              !.tasks[t].pc = "send"]

\* handleFileChange from the resolution of fileToBase64 to the next await.
fileEncoded(s, t) ==
    LET encoded == fileToBase64(s.tasks[t].file)
    IN  IF ~StartsWith(encoded.mimeType, ImagePrefix)
        THEN fileCatch(s, t,
                 [isError |-> TRUE, message |-> "Please upload a valid image file."],
                 "invalid")
        ELSE [s EXCEPT !.chat = t,
                       !.tasks[t].chat = t,
                       !.tasks[t].pc = "send"]

\* handleFileChange when fileToBase64 rejects (reader.onerror).
fileEncodeFailed(s, t, err) == fileCatch(s, t, err, "failed")

\* handleFileChange from the resolution of newChat.sendMessage to its end.
fileResponded(s, t, clock) ==
    [s EXCEPT !.messages = Append(@, AiResponse(t, clock)),
              !.showWhyButton = TRUE,
              !.isLoading = FALSE,
              !.tasks[t] = Finished(@, "ok")]

\* handleFileChange when newChat.sendMessage rejects.
fileSendFailed(s, t, err) == fileCatch(s, t, err, "failed")

\* handleSendMessage that leaves the input field as it is.
handleSendMessage_KeepsInput(s, messageText, clock) ==
    IF Trim(messageText) = <<>> \/ s.chat = NoChat
    THEN s
    ELSE LET store == Append(s.messages, UserMessage(messageText, clock))
         IN  [s EXCEPT !.messages = store,
                       !.isLoading = TRUE,
                       !.error = NoError,
                       !.showWhyButton = FALSE,
                       !.tasks = Append(@, TextTask(s, messageText, store))]

\* handleSendMessage whose guard forgets the session check.
handleSendMessage_NoSessionCheck(s, messageText, clock) ==
    IF Trim(messageText) = <<>>
    THEN s
    ELSE LET store == Append(s.messages, UserMessage(messageText, clock))
         IN  [s EXCEPT !.messages = store,
                       !.userInput = <<>>,
                       !.isLoading = TRUE,
                       !.error = NoError,
                       !.showWhyButton = FALSE,
                       !.tasks = Append(@, TextTask(s, messageText, store))]

\* handleSendMessage up to its await.
handleSendMessage(s, messageText, clock) ==
    IF Trim(messageText) = <<>> \/ s.chat = NoChat
    THEN s
    ELSE LET store == Append(s.messages, UserMessage(messageText, clock))
         IN  [s EXCEPT !.messages = store,
                       !.userInput = <<>>,
                       !.isLoading = TRUE,
                       !.error = NoError,
                       !.showWhyButton = FALSE,
                       !.tasks = Append(@, TextTask(s, messageText, store))]

\* textResponded that replaces the store by the response.
textResponded_Replaces(s, t, clock) ==
    [s EXCEPT !.messages = <<AiResponse(t, clock)>>,
              !.showWhyButton = TRUE,
              !.isLoading = FALSE,
              !.tasks[t] = Finished(@, "ok")]

\* textResponded that drops the response of a session that is no longer the
\* current handle.
textResponded_DropsStale(s, t, clock) ==
    [s EXCEPT !.messages = IF s.chat = s.tasks[t].chat
                           THEN Append(@, AiResponse(t, clock))
                           ELSE @,
              !.showWhyButton = TRUE,
              !.isLoading = FALSE,
              !.tasks[t] = Finished(@, "ok")]

\* handleSendMessage from the resolution of chat.sendMessage to its end.
textResponded(s, t, clock) ==
    [s EXCEPT !.messages = Append(@, AiResponse(t, clock)),
              !.showWhyButton = TRUE,
              !.isLoading = FALSE,
              !.tasks[t] = Finished(@, "ok")]

\* textSendFailed without the finally block.
textSendFailed_KeepsLoading(s, t, err) ==
    [s EXCEPT !.error = "Failed to get a response. " \o ErrorMessage(err),
              !.tasks[t] = Finished(@, "failed")]

\* handleSendMessage when chat.sendMessage rejects.
textSendFailed(s, t, err) ==
    [s EXCEPT !.error = "Failed to get a response. " \o ErrorMessage(err),
              !.isLoading = FALSE,
              !.tasks[t] = Finished(@, "failed")]

--------------------------------------------------------------------------
(* What the rendered page permits *)

WhyButtonShown(s) == s.chat # NoChat /\ s.showWhyButton /\ ~s.isLoading
InputEnabled(s) == ~(s.isLoading \/ s.chat = NoChat)
SubmitEnabled(s) == ~(s.isLoading \/ Trim(s.userInput) = <<>> \/ s.chat = NoChat)

--------------------------------------------------------------------------
(* Actions *)

Init ==
    /\ messages = <<Greeting>>
    /\ userInput = <<>>
    /\ isLoading = FALSE
    /\ error = NoError
    /\ chat = NoChat
    /\ showWhyButton = FALSE
    /\ tasks = <<>>
    /\ now = 0

\* Date.now() never goes back; between two readings it may stay or advance.
Readings == {c \in {now, now + 1} : c <= MaxClock}

\* The file input's onChange.
CallHandleFileChange(file) ==
    \E clock \in Readings :
        LET next == handleFileChange(State, file, clock)
        IN  /\ next # State => Len(tasks) < MaxTasks
            /\ Install(next)
            /\ now' = IF next = State THEN now ELSE clock

\* handleSendMessage called with any text in any state.
CallHandleSendMessage(messageText) ==
    \E clock \in Readings :
        LET next == handleSendMessage(State, messageText, clock)
        IN  /\ next # State => Len(tasks) < MaxTasks
            /\ Install(next)
            /\ now' = IF next = State THEN now ELSE clock

\* The text input's onChange.
SetUserInput(text) ==
    /\ userInput' = text
    /\ UNCHANGED <<messages, isLoading, error, chat, showWhyButton, tasks, now>>

TypeText(text) ==
    /\ InputEnabled(State)
    /\ SetUserInput(text)

\* The form's onSubmit, through the submit button.
SubmitForm ==
    /\ SubmitEnabled(State)
    /\ CallHandleSendMessage(userInput)

\* The follow-up button's onClick.
ClickWhy ==
    /\ WhyButtonShown(State)
    /\ CallHandleSendMessage(WhyText)

FileEncoded(t) ==
    /\ tasks[t].kind = "file" /\ tasks[t].pc = "encode"
    /\ Install(fileEncoded(State, t))
    /\ UNCHANGED now

FileEncodeFailed(t) ==
    /\ tasks[t].kind = "file" /\ tasks[t].pc = "encode"
    /\ Install(fileEncodeFailed(State, t, NotAnError))
    /\ UNCHANGED now

FileResponded(t) ==
    /\ tasks[t].kind = "file" /\ tasks[t].pc = "send"
    /\ \E clock \in Readings :
           /\ Install(fileResponded(State, t, clock))
           /\ now' = clock

FileSendFailed(t) ==
    /\ tasks[t].kind = "file" /\ tasks[t].pc = "send"
    /\ Install(fileSendFailed(State, t, ServiceError))
    /\ UNCHANGED now

TextResponded(t) ==
    /\ tasks[t].kind = "text" /\ tasks[t].pc = "send"
    /\ \E clock \in Readings :
           /\ Install(textResponded(State, t, clock))
           /\ now' = clock

TextSendFailed(t) ==
    /\ tasks[t].kind = "text" /\ tasks[t].pc = "send"
    /\ Install(textSendFailed(State, t, ServiceError))
    /\ UNCHANGED now

\* The page: uploads at any time, the text controls as rendered.
Next ==
    \/ \E file \in Files \cup {NoFile} : CallHandleFileChange(file)
    \/ \E text \in Texts : TypeText(text)
    \/ SubmitForm
    \/ ClickWhy
    \/ \E t \in DOMAIN tasks : FileEncoded(t)
    \/ \E t \in DOMAIN tasks : FileEncodeFailed(t)
    \/ \E t \in DOMAIN tasks : FileResponded(t)
    \/ \E t \in DOMAIN tasks : FileSendFailed(t)
    \/ \E t \in DOMAIN tasks : TextResponded(t)
    \/ \E t \in DOMAIN tasks : TextSendFailed(t)

Spec == Init /\ [][Next]_vars

\* A pending encode or service call settles.
Settle ==
    \E t \in DOMAIN tasks :
        \/ FileEncoded(t)
        \/ FileEncodeFailed(t)
        \/ FileResponded(t)
        \/ FileSendFailed(t)
        \/ TextResponded(t)
        \/ TextSendFailed(t)

\* The page with one text to type: uploads, form submits, follow-up clicks
\* and settlements.  What is typed does not reach the loading flag.
NextLive ==
    \/ \E file \in Files \cup {NoFile} : CallHandleFileChange(file)
    \/ TypeText(WhyText)
    \/ SubmitForm
    \/ ClickWhy
    \/ \E t \in DOMAIN tasks : FileEncoded(t)
    \/ \E t \in DOMAIN tasks : FileEncodeFailed(t)
    \/ \E t \in DOMAIN tasks : FileResponded(t)
    \/ \E t \in DOMAIN tasks : FileSendFailed(t)
    \/ \E t \in DOMAIN tasks : TextResponded(t)
    \/ \E t \in DOMAIN tasks : TextSendFailed(t)

\* Every pending encode and service call eventually settles; the user may
\* stop at any time.
SpecLive == Init /\ [][NextLive]_vars /\ WF_vars(Settle)

\* The handlers called directly, without the page's disabled guards.
NextAPI ==
    \/ \E file \in Files \cup {NoFile} : CallHandleFileChange(file)
    \/ \E text \in Texts : TypeText(text)
    \/ \E text \in Texts \cup {<<>>} : CallHandleSendMessage(text)
    \/ \E t \in DOMAIN tasks : FileEncoded(t)
    \/ \E t \in DOMAIN tasks : FileEncodeFailed(t)
    \/ \E t \in DOMAIN tasks : FileResponded(t)
    \/ \E t \in DOMAIN tasks : FileSendFailed(t)
    \/ \E t \in DOMAIN tasks : TextResponded(t)
    \/ \E t \in DOMAIN tasks : TextSendFailed(t)

SpecAPI == Init /\ [][NextAPI]_vars

--------------------------------------------------------------------------
(* Steps and sets the properties speak about *)

FileTasks == {t \in DOMAIN tasks : tasks[t].kind = "file"}
TextTasks == {t \in DOMAIN tasks : tasks[t].kind = "text"}

\* The most recently accepted upload.
IsLatestUpload(t) == t \in FileTasks /\ \A u \in FileTasks : u <= t

\* A handler call was accepted in this step and suspended as task t.
Accepted(t) == Len(tasks') = Len(tasks) + 1 /\ t = Len(tasks')

\* Task t ended in this step with the given outcome.
Ended(t, outcome) ==
    /\ t \in Pending(tasks)
    /\ tasks'[t].pc = outcome

\* The sessions that are the current handle or still have a request pending.
LiveSessions ==
    {c \in DOMAIN tasks :
        \/ chat = c
        \/ \E t \in Pending(tasks) : tasks[t].chat = c}

HasImageType(file) == StartsWith(file.type, ImagePrefix)

--------------------------------------------------------------------------
(* C1 *)

\* C1: through the actions the page permits, at most one encode or
\* sendMessage is pending at a time, and at most one session is the current
\* handle or still has a pending request.
C1_AtMostOneInFlight ==
    /\ Cardinality(Pending(tasks)) <= 1
    /\ Cardinality(LiveSessions) <= 1

--------------------------------------------------------------------------
(* C2 *)

\* C2: an accepted image upload leaves no earlier entry in the store, and
\* when the most recent upload succeeds the session handle is the session
\* created for that upload, not one created by an earlier upload.
C2_UploadReplacesStoreAndSession ==
    [][\A t \in DOMAIN tasks' :
          /\ (Accepted(t) /\ tasks'[t].kind = "file") =>
                 \A i \in DOMAIN messages : \A j \in DOMAIN messages' :
                     messages'[j] # messages[i]
          /\ (IsLatestUpload(t) /\ Ended(t, "ok")) => chat' = t]_vars

--------------------------------------------------------------------------
(* C3 *)

\* C3: an upload whose media type does not start with "image/" never creates
\* a session and never sends, and when its handler finishes the store is
\* empty and the error flag holds a message, whatever the state before.
C3_NonImageRejected ==
    [][\A t \in FileTasks :
          (tasks[t].pc = "encode" /\ ~HasImageType(tasks[t].file)) =>
              /\ tasks'[t].pc \in {"encode", "invalid", "failed"}
              /\ tasks'[t].chat = NoChat
              /\ chat' # t
              /\ tasks'[t].pc # "encode" =>
                     /\ messages' = <<>>
                     /\ error' # NoError]_vars

\* A non-image upload was rejected while an earlier session existed.
C3_Witness ==
    \E t \in FileTasks :
        /\ tasks[t].pc = "invalid"
        /\ messages = <<>>
        /\ error # NoError
        /\ chat # NoChat

--------------------------------------------------------------------------
(* C4 *)

\* C4: a non-blank text submit issued when no request is pending, and not
\* followed by another user action before its response, grows the store by
\* exactly two entries: the user text entry at the submit, then the assistant
\* entry at the response, each appended with the earlier entries unchanged.
C4_RoundTripGrowsByTwo ==
    [][\A t \in DOMAIN tasks' :
          /\ (Accepted(t) /\ tasks'[t].kind = "text") =>
                 \E clock \in 0..MaxClock :
                     /\ messages' = Append(messages, UserMessage(tasks'[t].text, clock))
                     /\ tasks'[t].issued = messages'
          /\ (t \in TextTasks /\ tasks[t].alone /\ t = Len(tasks) /\ Ended(t, "ok")) =>
                 \E clock \in 0..MaxClock :
                     messages' = Append(tasks[t].issued, AiResponse(t, clock))]_vars

\* Two text round trips after an upload: image, reply, and two pairs.
C4_Witness ==
    /\ Len(tasks) = 3
    /\ \A t \in {2, 3} : tasks[t].kind = "text" /\ tasks[t].pc = "ok"
    /\ Len(messages) = 6
    /\ \A t \in {2, 3} :
           /\ messages[2 * t - 1].sender = "user"
           /\ messages[2 * t - 1].type = "text"
           /\ messages[2 * t].content = ResponseText(t)

--------------------------------------------------------------------------
(* C5 *)

\* C5: the assistant responses in the store stand in the order in which
\* their requests were issued.
C5_ResponsesInRequestOrder ==
    \A i, j \in DOMAIN messages : \A a, b \in DOMAIN tasks :
        ( /\ i < j
          /\ messages[i].sender = "ai" /\ messages[i].content = ResponseText(a)
          /\ messages[j].sender = "ai" /\ messages[j].content = ResponseText(b) )
        => a < b

--------------------------------------------------------------------------
(* C6 *)

\* C6: an upload cancels no pending request, and every response is appended
\* to whatever the store is when it arrives; so the response of an abandoned
\* session can land in the store a later upload has reset (C6_Witness).
C6_LateResponseAppended ==
    [][\A t \in DOMAIN tasks' :
          /\ (Accepted(t) /\ tasks'[t].kind = "file") =>
                 \A p \in Pending(tasks) : tasks'[p] = tasks[p]
          /\ Ended(t, "ok") =>
                 \E clock \in 0..MaxClock :
                     messages' = Append(messages, AiResponse(t, clock))]_vars

\* The store begins with the image of upload u, u's session is the handle,
\* and the store holds the response to a text sent earlier on another session.
C6_Witness ==
    \E u \in FileTasks : \E t \in TextTasks :
        /\ t < u
        /\ chat = u
        /\ tasks[t].chat # u
        /\ tasks[t].pc = "ok"
        /\ Len(messages) >= 2
        /\ messages[1].content = ObjectURL(u)
        /\ \E j \in 2..Len(messages) : messages[j].content = ResponseText(t)

--------------------------------------------------------------------------
(* C7 *)

\* C7: when a response is appended the follow-up prompt is shown as soon as
\* that handler ends, and it stays shown over every step that is not a user
\* action, whatever completions those steps are.
C7_FollowUpStaysAvailable ==
    [][/\ (\E t \in DOMAIN tasks : Ended(t, "ok")) => WhyButtonShown(State)'
       /\ (WhyButtonShown(State) /\ Len(tasks') = Len(tasks)) =>
              WhyButtonShown(State)']_vars

\* The prompt is shown although a failed upload has since emptied the store.
C7_Witness ==
    /\ WhyButtonShown(State)
    /\ messages = <<>>
    /\ error # NoError

--------------------------------------------------------------------------
(* C8 *)

\* C8: once the most recent upload has been rejected by the media type check
\* no session is active, and a non-blank text submit is ignored.
C8_RejectedUploadResetsSession ==
    \A t \in FileTasks :
        (IsLatestUpload(t) /\ tasks[t].pc = "invalid" /\ Pending(tasks) = {}) =>
            /\ chat = NoChat
            /\ handleSendMessage(State, WhyText, now) = State

--------------------------------------------------------------------------
(* C9 *)

\* C9: when the service call of a text submit fails, the store is the store
\* as it was just after the user's entry was appended, the error flag holds a
\* message, the follow-up flag is false, loading is cleared and the session
\* handle is unchanged.
C9_TextFailureRetainsStore ==
    [][\A t \in TextTasks :
          Ended(t, "failed") =>
              /\ messages' = tasks[t].issued
              /\ error' # NoError
              /\ ~showWhyButton'
              /\ ~isLoading'
              /\ chat' = chat]_vars

--------------------------------------------------------------------------
(* C10 *)

IsBlank(text) == \A i \in DOMAIN text : text[i] \in Whitespace

\* C10: handleSendMessage called with an empty or whitespace-only text, or
\* while no session exists, changes nothing: store, loading, error, follow-up
\* flag, input field and session handle stay, and no request is started.
C10_IgnoredSubmitChangesNothing ==
    \A text \in Texts \cup {<<>>} : \A clock \in Readings :
        (IsBlank(text) \/ chat = NoChat) =>
            handleSendMessage(State, text, clock) = State

\* A session exists, the page is idle and the input holds only a space: a
\* submit of the input is an ignored one.
C10_Witness ==
    /\ chat # NoChat
    /\ ~isLoading
    /\ userInput = <<" ">>
    /\ messages # <<>>
    /\ handleSendMessage(State, userInput, now) = State

--------------------------------------------------------------------------
(* C11 *)

IsUserImage(m) == m.sender = "user" /\ m.type = "image"
IsAiText(m) == m.sender = "ai" /\ m.type = "text"
IsUserText(m) == m.sender = "user" /\ m.type = "text"

\* C11: for an image upload accepted while no request is pending, the store
\* is exactly one user image entry until the upload's response arrives, and
\* on success it is exactly a user image entry followed by the assistant
\* text entry, with the follow-up flag on, no error and loading off.
C11_FirstImageScenario ==
    [][\A t \in FileTasks :
          (tasks[t].alone /\ HasImageType(tasks[t].file)) =>
              /\ t \in Pending(tasks') =>
                     /\ Len(messages') = 1
                     /\ IsUserImage(messages'[1])
              /\ Ended(t, "ok") =>
                     /\ Len(messages') = 2
                     /\ IsUserImage(messages'[1])
                     /\ IsAiText(messages'[2])
                     /\ messages'[2].content = ResponseText(t)
                     /\ showWhyButton'
                     /\ error' = NoError
                     /\ ~isLoading']_vars

--------------------------------------------------------------------------
(* C12 *)

\* C12: the entries of the store have pairwise distinct ids.
C12_IdsUnique ==
    \A i, j \in DOMAIN messages : i # j => messages[i].id # messages[j].id

--------------------------------------------------------------------------
(* C13 *)

\* C13: wherever the follow-up prompt is shown, clicking it and submitting
\* the typed literal "Why did we do that?" through the form give the same
\* state: the user entry with that text appended, the input cleared, loading
\* set, error and follow-up flag cleared, and one request with that text on
\* the current session; the response and the failure then give the same
\* states too.
C13_ClickEqualsSubmit ==
    WhyButtonShown(State) =>
        \A clock \in Readings :
            LET typed == [State EXCEPT !.userInput = WhyText]
                clicked == handleSendMessage(State, WhyText, clock)
                submitted == handleSendMessage(typed, typed.userInput, clock)
                t == Len(tasks) + 1
            IN  /\ SubmitEnabled(typed)
                /\ clicked = submitted
                /\ clicked.messages = Append(messages, UserMessage(WhyText, clock))
                /\ clicked.userInput = <<>>
                /\ clicked.isLoading
                /\ clicked.error = NoError
                /\ ~clicked.showWhyButton
                /\ clicked.chat = chat
                /\ Len(clicked.tasks) = t
                /\ clicked.tasks[t].kind = "text"
                /\ clicked.tasks[t].text = WhyText
                /\ clicked.tasks[t].chat = chat
                /\ \A c2 \in clock..MaxClock :
                       textResponded(clicked, t, c2) = textResponded(submitted, t, c2)
                /\ textSendFailed(clicked, t, ServiceError)
                       = textSendFailed(submitted, t, ServiceError)

\* The request of a click or of a submit of the literal is pending.
C13_Witness ==
    \E t \in TextTasks :
        /\ tasks[t].pc = "send"
        /\ tasks[t].text = WhyText
        /\ messages # <<>>
        /\ messages[Len(messages)].content = WhyText
        /\ userInput = <<>>
        /\ isLoading

--------------------------------------------------------------------------
(* C14 *)

\* C14: if every pending encode and service call eventually settles and the
\* user acts finitely often, loading eventually is false and stays false.
C14_LoadingEventuallyCleared == <>[](~isLoading)

\* Three overlapping or successive requests have all settled, one of them
\* by a failure, and loading is off.
C14_Witness ==
    /\ Len(tasks) = MaxTasks
    /\ Pending(tasks) = {}
    /\ \E t \in DOMAIN tasks : tasks[t].pc = "failed"
    /\ \E t \in DOMAIN tasks : tasks[t].pc = "ok"
    /\ ~isLoading

--------------------------------------------------------------------------
(* C15 *)

\* C15: while any encode or sendMessage is pending, the loading flag is true.
C15_LoadingCoversPending == Pending(tasks) # {} => isLoading

--------------------------------------------------------------------------
(* C16 *)

\* C16: every text turn is sent on a session whose first image turn has
\* completed successfully: the upload that created the session of any text
\* request has ended with its response, and is neither pending nor failed.
C16_TextOnlyAfterFirstSuccess ==
    \A t \in TextTasks :
        /\ tasks[t].chat \in FileTasks
        /\ tasks[tasks[t].chat].pc = "ok"

--------------------------------------------------------------------------
(* C17 *)

\* C17: whenever the follow-up prompt is shown, the store is not empty and
\* its last entry is an assistant text entry.
C17_PromptUnderAssistantEntry ==
    WhyButtonShown(State) =>
        /\ messages # <<>>
        /\ IsAiText(messages[Len(messages)])

--------------------------------------------------------------------------
(* C18 *)

\* C18: once an upload has been accepted, the store is empty or begins with
\* a user image entry.
C18_StoreBeginsWithImage ==
    tasks # <<>> => (messages = <<>> \/ IsUserImage(messages[1]))

====
